---- MODULE Spec2Model ----
(***************************************************************************)
(* The HTML validator of src/main.rs: run_app reads the file, then         *)
(* validate_html_file opens, decodes and parses it, walks the DOM with     *)
(* HtmlValidator::traverse_dom, runs                                       *)
(* ValidationContext::check_document_structure and returns Ok(()) or the   *)
(* joined error messages.                                                  *)
(*                                                                         *)
(* The parser (html5ever) is a library outside the repository. The model   *)
(* takes the tree it hands to traverse_dom to be any finite ordered tree   *)
(* rooted at a Document node, whose inner nodes are elements: traverse_dom *)
(* is total over handles and the validation rules are stated for every     *)
(* document tree.                                                          *)
(***************************************************************************)
EXTENDS Integers, Sequences, FiniteSets, TLC

VARIABLES
    file,       \* what the path names on disk: one of FileStates
    doc,        \* the tree parse_document builds from the file's HTML text
    pc,         \* position of the program in run_app / validate_html_file
    pending,    \* handles whose traverse_dom call has not begun, next first
    context,    \* validator.context : ValidationContext
    errors,     \* validator.errors : Vec<String>
    visited,    \* history: the traverse_dom calls made, with what each pushed
    outcomes    \* history: the outcome of every finished run, oldest first

vars == <<file, doc, pc, pending, context, errors, visited, outcomes>>

-----------------------------------------------------------------------------
(* Bounds of the model *)

\* nodes of a tree, the Document root included, with every label allowed
MaxNodes == 3
\* nodes of a tree, the Document root included, built from StructureLabels
MaxDeepNodes == 4
\* nodes of a page beyond the five of its skeleton
MaxExtraNodes == 1

-----------------------------------------------------------------------------
(* Small helpers *)

Range(s) == {s[i] : i \in DOMAIN s}

RECURSIVE SetToSortedSeq(_)
SetToSortedSeq(S) ==
    IF S = {} THEN <<>>
    ELSE LET m == CHOOSE x \in S : \A y \in S : x <= y
         IN  <<m>> \o SetToSortedSeq(S \ {m})

RECURSIVE Flatten(_)
Flatten(ss) == IF ss = <<>> THEN <<>> ELSE Head(ss) \o Flatten(Tail(ss))

-----------------------------------------------------------------------------
(* The node data of markup5ever_rcdom, as far as traverse_dom reads it *)

Attr(name, value) == <<name, value>>

Document == [kind |-> "Document", name |-> "", attrs |-> <<>>]
Doctype(name) == [kind |-> "Doctype", name |-> name, attrs |-> <<>>]
Element(name, attrs) == [kind |-> "Element", name |-> name, attrs |-> attrs]
Text == [kind |-> "Text", name |-> "", attrs |-> <<>>]
Comment == [kind |-> "Comment", name |-> "", attrs |-> <<>>]
ProcessingInstruction ==
    [kind |-> "ProcessingInstruction", name |-> "", attrs |-> <<>>]

\* the labels a node other than the root is drawn from
DoctypeLabels == {Doctype("html"), Doctype("HTML")}
LeafLabels == {Text, Comment, ProcessingInstruction}
PlainElementLabels ==
    {Element(t, <<>>) : t \in {"html", "head", "body", "title", "base", "br", "div"}}
ImgLabels ==
    {Element("img", as) : as \in
        { <<>>,
          <<Attr("src", "a.png")>>,
          <<Attr("alt", "")>>,
          <<Attr("src", "a.png"), Attr("alt", "x")>>,
          <<Attr("alt", "x"), Attr("alt", "y")>>,
          <<Attr("SRC", "a.png")>> }}
ALabels ==
    {Element("a", as) : as \in
        { <<>>,
          <<Attr("href", "#")>>,
          <<Attr("href", "#"), Attr("href", "/")>> }}

AllLabels ==
    DoctypeLabels \cup LeafLabels \cup PlainElementLabels \cup ImgLabels \cup ALabels

StructureLabels ==
    {Doctype("html"), Text, Element("html", <<>>), Element("title", <<>>),
     Element("base", <<>>), Element("img", <<>>)}

RepeatLabels ==
    {Doctype("html"), Doctype("xml"), Element("head", <<>>),
     Element("title", <<>>), Element("a", <<>>)}

\* the tree of nodes 1..n in which node 1 is the Document, node c > 1 hangs
\* under parent[c] with data lab[c], and children stand in index order
MakeTree(n, parent, lab) ==
    [i \in 1..n |->
        [data |-> IF i = 1 THEN Document ELSE lab[i],
         children |-> SetToSortedSeq({c \in 2..n : parent[c] = i})]]

\* node c may hang under node p: p comes earlier and is the Document or an
\* element
MayHangUnder(c, p, lab) == p < c /\ (p = 1 \/ lab[p].kind = "Element")

\* every tree of n nodes over the labels
TreesOfSize(labels, n) ==
    { MakeTree(n, pl[1], pl[2]) :
        pl \in { q \in [2..n -> 1..n] \X [2..n -> labels] :
                   \A c \in 2..n : MayHangUnder(c, q[1][c], q[2]) } }

Trees(labels, max) == UNION {TreesOfSize(labels, n) : n \in 1..max}

\* pages as the parser lays them out: a doctype and a root element under the
\* Document, two elements under the root element, each drawn from what is
\* required there and one other label, and k more nodes anywhere
PageSkeletons ==
    {Doctype("html"), Doctype("HTML")}
        \X {Element("html", <<>>), Element("div", <<>>)}
        \X {Element("head", <<>>), Element("title", <<>>)}
        \X {Element("body", <<>>), Element("div", <<>>)}

PageParent == <<1, 1, 1, 3, 3>>

PageLabels ==
    {Text, Element("title", <<>>), Element("base", <<>>), Element("br", <<>>),
     Element("img", <<>>),
     Element("img", <<Attr("src", "a.png"), Attr("alt", "x")>>),
     Element("a", <<>>), Element("a", <<Attr("href", "#")>>)}

PagesOfSize(labels, k) ==
    { MakeTree(5 + k, PageParent \o x[2], <<Document>> \o x[1] \o x[3]) :
        x \in { y \in PageSkeletons \X [1..k -> 1..(5 + k)] \X [1..k -> labels] :
                  \A c \in 1..k :
                      MayHangUnder(5 + c, y[2][c], <<Document>> \o y[1] \o y[3]) } }

Pages(labels, max) == UNION {PagesOfSize(labels, k) : k \in 0..max}

Root == 1

-----------------------------------------------------------------------------
(* Messages *)

Red(s) == "\\e[31m" \o s \o "\\e[0m"
RedBold(s) == "\\e[1;31m" \o s \o "\\e[0m"

FileName == "index.html"

ReadToStringError == "Error reading file contents"
OpenError == RedBold("Error opening file") \o ": " \o FileName
ReadError == Red("Error reading file contents")
Utf8Error == Red("Error converting file contents to string")
ParseError == Red("Error parsing HTML document")

InvalidDoctypeMsg(name) ==
    "Invalid doctype: " \o name \o ". Expected <!DOCTYPE html>."
MultipleMsg(tag) ==
    "Multiple <" \o tag \o "> elements found. There should only be one <"
        \o tag \o "> element."
MissingSrcMsg == "<img> tag is missing 'src' attribute."
MissingAltMsg == "<img> tag is missing 'alt' attribute."
MissingHrefMsg == "<a> tag is missing 'href' attribute."
VoidMsg(tag) == "Void element <" \o tag \o "> should not have children."
MissingDoctypeMsg == "Missing <!DOCTYPE html> declaration."
MissingHtmlMsg == "Missing <html> element."
MissingHeadMsg == "Missing <head> element."
MissingBodyMsg == "Missing <body> element."

-----------------------------------------------------------------------------
(* ValidationContext *)

ValidationContextNew ==
    [has_doctype |-> FALSE, has_html |-> FALSE, has_head |-> FALSE,
     has_body |-> FALSE, unique_elements |-> {}]

\* update_context with the head arm setting the flag of the html arm
update_context_head_as_html(ctx, name) ==
    CASE name = "html" -> [ctx EXCEPT !.has_html = TRUE]
      [] name = "head" -> [ctx EXCEPT !.has_html = TRUE]
      [] name = "body" -> [ctx EXCEPT !.has_body = TRUE]
      [] OTHER -> ctx

update_context(ctx, name) ==
    CASE name = "html" -> [ctx EXCEPT !.has_html = TRUE]
      [] name = "head" -> [ctx EXCEPT !.has_head = TRUE]
      [] name = "body" -> [ctx EXCEPT !.has_body = TRUE]
      [] OTHER -> ctx

\* check_document_structure with the html check ahead of the doctype check
check_document_structure_html_first(ctx, errs) ==
    LET e1 == IF ~ctx.has_html THEN Append(errs, MissingHtmlMsg) ELSE errs
        e2 == IF ~ctx.has_doctype THEN Append(e1, MissingDoctypeMsg) ELSE e1
        e3 == IF ~ctx.has_head THEN Append(e2, MissingHeadMsg) ELSE e2
        e4 == IF ~ctx.has_body THEN Append(e3, MissingBodyMsg) ELSE e3
    IN  e4

check_document_structure(ctx, errs) ==
    LET e1 == IF ~ctx.has_doctype THEN Append(errs, MissingDoctypeMsg) ELSE errs
        e2 == IF ~ctx.has_html THEN Append(e1, MissingHtmlMsg) ELSE e1
        e3 == IF ~ctx.has_head THEN Append(e2, MissingHeadMsg) ELSE e2
        e4 == IF ~ctx.has_body THEN Append(e3, MissingBodyMsg) ELSE e3
    IN  e4

-----------------------------------------------------------------------------
(* HtmlValidator: a validator is the record [context, errors] *)

\* HtmlValidator::new() handing out the context of the run before
HtmlValidatorReused == [context |-> context, errors |-> <<>>]

HtmlValidatorNew == [context |-> ValidationContextNew, errors |-> <<>>]

\* validate_doctype comparing the name without regard to case
validate_doctype_ignore_case(v, name) ==
    IF name \in {"html", "HTML", "Html"}
    THEN [v EXCEPT !.context.has_doctype = TRUE]
    ELSE [v EXCEPT !.errors = Append(@, InvalidDoctypeMsg(name))]

validate_doctype(v, name) ==
    IF name = "html"
    THEN [v EXCEPT !.context.has_doctype = TRUE]
    ELSE [v EXCEPT !.errors = Append(@, InvalidDoctypeMsg(name))]

unique_tags == {"title", "base"}

\* validate_unique_elements forgetting the tag once it has reported it
validate_unique_elements_forget(v, name) ==
    IF name \in unique_tags
    THEN IF name \in v.context.unique_elements
         THEN [v EXCEPT !.context.unique_elements = @ \ {name},
                        !.errors = Append(@, MultipleMsg(name))]
         ELSE [v EXCEPT !.context.unique_elements = @ \cup {name}]
    ELSE v

validate_unique_elements(v, name) ==
    IF name \in unique_tags
    THEN \* HashSet::insert returns false when the value was already there
         LET inserted == name \notin v.context.unique_elements
             v1 == [v EXCEPT !.context.unique_elements = @ \cup {name}]
         IN  IF ~inserted
             THEN [v1 EXCEPT !.errors = Append(@, MultipleMsg(name))]
             ELSE v1
    ELSE v

\* collect() into a HashMap: one entry per name, a later value replaces an
\* earlier one
attrs_map(attrs_vec) ==
    [k \in {a[1] : a \in Range(attrs_vec)} |->
        LET last == CHOOSE i \in DOMAIN attrs_vec :
                        /\ attrs_vec[i][1] = k
                        /\ \A j \in DOMAIN attrs_vec :
                               attrs_vec[j][1] = k => j <= i
        IN  attrs_vec[last][2]]

contains_key(map, k) == k \in DOMAIN map

\* validate_attributes checking alt only when src is there
validate_attributes_else_if(v, name, attrs_vec) ==
    LET m == attrs_map(attrs_vec)
    IN  CASE name = "img" ->
               IF ~contains_key(m, "src")
               THEN [v EXCEPT !.errors = Append(@, MissingSrcMsg)]
               ELSE IF ~contains_key(m, "alt")
               THEN [v EXCEPT !.errors = Append(@, MissingAltMsg)]
               ELSE v
          [] name = "a" ->
               IF ~contains_key(m, "href")
               THEN [v EXCEPT !.errors = Append(@, MissingHrefMsg)]
               ELSE v
          [] OTHER -> v

validate_attributes(v, name, attrs_vec) ==
    LET m == attrs_map(attrs_vec)
    IN  CASE name = "img" ->
               LET v1 == IF ~contains_key(m, "src")
                         THEN [v EXCEPT !.errors = Append(@, MissingSrcMsg)]
                         ELSE v
               IN  IF ~contains_key(m, "alt")
                   THEN [v1 EXCEPT !.errors = Append(@, MissingAltMsg)]
                   ELSE v1
          [] name = "a" ->
               IF ~contains_key(m, "href")
               THEN [v EXCEPT !.errors = Append(@, MissingHrefMsg)]
               ELSE v
          [] OTHER -> v

void_elements ==
    {"area", "base", "br", "col", "embed", "hr", "img", "input", "link",
     "meta", "source", "track", "wbr"}

\* validate_void_elements reporting once per child
validate_void_elements_per_child(v, name, children) ==
    IF name \in void_elements
    THEN [v EXCEPT !.errors = @ \o [i \in DOMAIN children |-> VoidMsg(name)]]
    ELSE v

validate_void_elements(v, name, children) ==
    IF name \in void_elements /\ children # <<>>
    THEN [v EXCEPT !.errors = Append(@, VoidMsg(name))]
    ELSE v

\* the match of traverse_dom on handle.data
Dispatch(v, handle) ==
    LET data == handle.data
    IN  CASE data.kind = "Doctype" -> validate_doctype(v, data.name)
          [] data.kind = "Element" ->
               LET v1 == [v EXCEPT !.context = update_context(@, data.name)]
                   v2 == validate_unique_elements(v1, data.name)
                   v3 == validate_attributes(v2, data.name, data.attrs)
               IN  validate_void_elements(v3, data.name, handle.children)
          [] OTHER -> v

\* the calls that follow the match: one per child, in the stored order,
\* each finished before the next one begins
\* the children queued behind the calls already pending
ChildCallsBehind(handle, rest) == rest \o handle.children

ChildCalls(handle, rest) == handle.children \o rest

-----------------------------------------------------------------------------
(* validate_html_file's result, and the outcome of a run *)

\* Vec<String>::join("\n"): the messages with a separator between neighbours,
\* a string kept as the sequence of its pieces
RECURSIVE Join(_, _)
Join(strs, sep) ==
    IF strs = <<>> THEN <<>>
    ELSE IF Len(strs) = 1 THEN <<strs[1]>>
    ELSE <<strs[1], sep>> \o Join(Tail(strs), sep)

\* the result carrying the first message alone
ResultOfFirst(errs) ==
    IF errs = <<>>
    THEN [ok |-> TRUE, text |-> <<>>]
    ELSE [ok |-> FALSE, text |-> <<errs[1]>>]

ResultOf(errs) ==
    IF errs = <<>>
    THEN [ok |-> TRUE, text |-> <<>>]
    ELSE [ok |-> FALSE, text |-> Join(errs, "\n")]

Outcome(stage, ok, text, cause, traversed) ==
    [stage |-> stage, ok |-> ok, text |-> text, cause |-> cause,
     traversed |-> traversed]

FileStates == {"missing", "directory", "binary", "html"}

-----------------------------------------------------------------------------
(* Actions *)

\* line 54: std::fs::read_to_string(filename)
RunAppRead ==
    /\ pc = "run_app"
    /\ IF file = "html"
       THEN /\ pc' = "validate_html_file"
            /\ outcomes' = outcomes
       ELSE /\ pc' = "done"
            /\ outcomes' = Append(outcomes,
                   Outcome("run_app", FALSE, <<ReadToStringError>>, file, FALSE))
    /\ UNCHANGED <<file, doc, pending, context, errors, visited>>

\* the path is read a second time at line 103: what it names can have changed
FileChanges ==
    /\ pc = "validate_html_file"
    /\ file' \in FileStates \ {file}
    /\ UNCHANGED <<doc, pc, pending, context, errors, visited, outcomes>>

\* parse_document(..).from_utf8().read_from(&mut Cursor::new(bytes)): reading
\* a Cursor over bytes in memory cannot fail, and the parser accepts every
\* input
read_from == [ok |-> TRUE, document |-> doc]

\* lines 103-118: open, read, decode, parse, HtmlValidator::new()
ValidateHtmlFileOpen ==
    /\ pc = "validate_html_file"
    /\ LET fatal == CASE file = "missing" -> <<OpenError>>
                      [] file = "directory" -> <<ReadError>>
                      [] file = "binary" -> <<Utf8Error>>
                      [] ~read_from.ok -> <<ParseError>>
                      [] OTHER -> <<>>
       IN  IF fatal # <<>>
           THEN /\ pc' = "done"
                /\ outcomes' = Append(outcomes,
                       Outcome("validate_html_file", FALSE, fatal, file, FALSE))
                /\ UNCHANGED <<pending, context, errors, visited>>
           ELSE /\ pc' = "traverse_dom"
                /\ context' = HtmlValidatorNew.context
                /\ errors' = HtmlValidatorNew.errors
                /\ pending' = <<Root>>
                /\ visited' = <<>>
                /\ outcomes' = outcomes
    /\ UNCHANGED <<file, doc>>

\* lines 143-166: one call of traverse_dom, up to its first recursive call
TraverseDom ==
    /\ pc = "traverse_dom"
    /\ pending # <<>>
    /\ LET n == Head(pending)
           v == Dispatch([context |-> context, errors |-> errors], doc[n])
       IN  /\ context' = v.context
           /\ errors' = v.errors
           /\ pending' = ChildCalls(doc[n], Tail(pending))
           /\ visited' = Append(visited,
                  [node |-> n,
                   pushed |-> SubSeq(v.errors, Len(errors) + 1, Len(v.errors))])
    /\ UNCHANGED <<file, doc, pc, outcomes>>

\* line 121: validator.context.check_document_structure(&mut validator.errors)
CheckDocumentStructure ==
    /\ pc = "traverse_dom"
    /\ pending = <<>>
    /\ errors' = check_document_structure(context, errors)
    /\ pc' = "return"
    /\ UNCHANGED <<file, doc, pending, context, visited, outcomes>>

\* lines 123-127: Ok(()) or Err(validator.errors.join("\n"))
ValidateHtmlFileReturn ==
    /\ pc = "return"
    /\ LET r == ResultOf(errors)
       IN  outcomes' = Append(outcomes,
               Outcome("validate_html_file", r.ok, r.text, file, TRUE))
    /\ pc' = "done"
    /\ UNCHANGED <<file, doc, pending, context, errors, visited>>

\* the program is started a second time, on whatever the path names then
RunAgain ==
    /\ pc = "done"
    /\ Len(outcomes) < 2
    /\ pc' = "run_app"
    /\ file' \in FileStates
    /\ UNCHANGED <<doc, pending, context, errors, visited, outcomes>>

-----------------------------------------------------------------------------
(* Specifications *)

InitWith(trees) ==
    /\ doc \in trees
    /\ file \in FileStates
    /\ file # "html" => doc = [i \in 1..1 |-> [data |-> Document, children |-> <<>>]]
    /\ pc = "run_app"
    /\ pending = <<>>
    /\ context = ValidationContextNew
    /\ errors = <<>>
    /\ visited = <<>>
    /\ outcomes = <<>>

Init == InitWith(Trees(AllLabels, MaxNodes))

Next ==
    \/ RunAppRead
    \/ FileChanges
    \/ ValidateHtmlFileOpen
    \/ TraverseDom
    \/ CheckDocumentStructure
    \/ ValidateHtmlFileReturn

Spec == Init /\ [][Next]_vars

\* deeper trees over the labels the structural rules read
InitDeep == InitWith(Trees(StructureLabels, MaxDeepNodes))

SpecDeep == InitDeep /\ [][Next]_vars

\* pages: trees with the layout the parser gives a document
InitPage == InitWith(Pages(PageLabels, MaxExtraNodes))

SpecPage == InitPage /\ [][Next]_vars

\* two runs of the program, one after the other
InitTwice ==
    /\ doc \in Trees(RepeatLabels, MaxNodes)
    /\ file \in FileStates
    /\ pc = "run_app"
    /\ pending = <<>>
    /\ context = ValidationContextNew
    /\ errors = <<>>
    /\ visited = <<>>
    /\ outcomes = <<>>

NextTwice == Next \/ RunAgain

SpecTwice == InitTwice /\ [][NextTwice]_vars

-----------------------------------------------------------------------------
(* What the properties below are stated with *)

Count(seq, x) == Cardinality({i \in DOMAIN seq : seq[i] = x})

IsPrefix(s, t) == Len(s) <= Len(t) /\ SubSeq(t, 1, Len(s)) = s

Nodes == DOMAIN doc

IsElement(n, tag) == doc[n].data.kind = "Element" /\ doc[n].data.name = tag

IsDoctype(n, name) == doc[n].data.kind = "Doctype" /\ doc[n].data.name = name

HasAttr(n, k) == \E i \in DOMAIN doc[n].data.attrs : doc[n].data.attrs[i][1] = k

\* the nodes under n, n first, each before its children, children left to right
RECURSIVE PreOrder(_)
PreOrder(n) ==
    <<n>> \o Flatten([i \in DOMAIN doc[n].children |-> PreOrder(doc[n].children[i])])

VisitedNodes == [i \in DOMAIN visited |-> visited[i].node]

\* the messages pushed by the traverse_dom calls made so far, in call order
TraversalMsgs == Flatten([i \in DOMAIN visited |-> visited[i].pushed])

StructuralMsgs ==
    <<MissingDoctypeMsg, MissingHtmlMsg, MissingHeadMsg, MissingBodyMsg>>

IsStructural(m) == m \in Range(StructuralMsgs)

Rank(m) == CHOOSE i \in DOMAIN StructuralMsgs : StructuralMsgs[i] = m

IsInvalidDoctypeMsg(m) == \E n \in Nodes : m = InvalidDoctypeMsg(doc[n].data.name)

\* the run has walked the tree and made the structural check
Checked ==
    \/ pc = "return"
    \/ pc = "done" /\ outcomes # <<>> /\ outcomes[Len(outcomes)].traversed

\* the lines of a joined text
Lines(text) == SelectSeq(text, LAMBDA t : t # "\n")

-----------------------------------------------------------------------------
(* C1 *)

\* C1: in the error list of a run that made the structural check, the
\* messages pushed during the traversal come first, in the order they were
\* pushed, none of them a 'Missing ...' message; every message after them is
\* a 'Missing ...' message, and these stand in the order doctype, html, head,
\* body.
C1_StructuralAfterTraversal ==
    Checked =>
        LET k == Len(TraversalMsgs)
        IN  /\ k <= Len(errors)
            /\ SubSeq(errors, 1, k) = TraversalMsgs
            /\ \A i \in 1..k : ~IsStructural(errors[i])
            /\ \A i \in (k + 1)..Len(errors) : IsStructural(errors[i])
            /\ \A i, j \in (k + 1)..Len(errors) :
                   i < j => Rank(errors[i]) < Rank(errors[j])

\* Scenario B and more: traversal messages, then missing-doctype and
\* missing-body with html present
C1_Witness ==
    /\ pc = "return"
    /\ Len(TraversalMsgs) >= 2
    /\ context.has_html /\ ~context.has_doctype /\ ~context.has_body
    /\ Len(errors) >= Len(TraversalMsgs) + 2

-----------------------------------------------------------------------------
(* C2 *)

\* the messages the data of node n can make traverse_dom push
CanCause(n) ==
    LET d == doc[n].data
    IN  CASE d.kind = "Doctype" -> {InvalidDoctypeMsg(d.name)}
          [] d.kind = "Element" ->
               {MultipleMsg(d.name), VoidMsg(d.name)}
                   \cup (IF d.name = "img" THEN {MissingSrcMsg, MissingAltMsg} ELSE {})
                   \cup (IF d.name = "a" THEN {MissingHrefMsg} ELSE {})
          [] OTHER -> {}

\* C2: the traverse_dom calls made so far are a prefix of the pre-order of
\* the tree, whatever the calls pushed; the error list during the walk is
\* what the calls pushed, in call order, each call pushing only messages of
\* its own node; and when the walk has ended every node has been visited
\* exactly once, in pre-order, and the structural check follows.
C2_PreOrderWalk ==
    /\ pc \in {"traverse_dom", "return"} =>
           /\ IsPrefix(VisitedNodes, PreOrder(Root))
           /\ \A i \in DOMAIN visited :
                  Range(visited[i].pushed) \subseteq CanCause(visited[i].node)
    /\ pc = "traverse_dom" => errors = TraversalMsgs
    /\ pc = "traverse_dom" /\ pending # <<>> => Len(VisitedNodes) < Len(PreOrder(Root))
    /\ Checked =>
           /\ VisitedNodes = PreOrder(Root)
           /\ \A n \in Nodes : Count(VisitedNodes, n) = 1
           /\ IsPrefix(TraversalMsgs, errors)

\* a walk that went on below a node that pushed a message, in an order that
\* is not the order of the node indices
C2_Witness ==
    /\ pc = "return"
    /\ Len(visited) = 4
    /\ VisitedNodes # <<1, 2, 3, 4>>
    /\ visited[2].pushed # <<>>
    /\ doc[visited[2].node].children # <<>>
    /\ visited[4].pushed # <<>>

-----------------------------------------------------------------------------
(* C3 *)

Occurrences(tag) == Cardinality({n \in Nodes : IsElement(n, tag)})

\* C3: after the walk, for title and for base, the number of 'Multiple <tag>'
\* messages is the number of elements of that tag minus one (zero when there
\* is none); during the walk an element of such a tag pushes that message
\* once when an element of the same tag was visited before it, and not
\* otherwise.
C3_DuplicateCount ==
    \A tag \in {"title", "base"} :
        /\ Checked =>
               Count(errors, MultipleMsg(tag)) =
                   IF Occurrences(tag) >= 1 THEN Occurrences(tag) - 1 ELSE 0
        /\ pc \in {"traverse_dom", "return"} =>
               \A i \in DOMAIN visited :
                   Count(visited[i].pushed, MultipleMsg(tag)) =
                       IF /\ IsElement(visited[i].node, tag)
                          /\ \E j \in 1..(i - 1) : IsElement(visited[j].node, tag)
                       THEN 1 ELSE 0

\* three title elements: the second and the third each pushed the message
C3_Witness ==
    /\ pc = "return"
    /\ Occurrences("title") = 3
    /\ Count(errors, MultipleMsg("title")) = 2

-----------------------------------------------------------------------------
(* C4 *)

\* the missing-attribute messages of an img or a element, an attribute being
\* present when some attribute of the element has exactly that name
AttrMsgs(n) ==
    IF IsElement(n, "img")
    THEN (IF HasAttr(n, "src") THEN <<>> ELSE <<MissingSrcMsg>>)
             \o (IF HasAttr(n, "alt") THEN <<>> ELSE <<MissingAltMsg>>)
    ELSE IF IsElement(n, "a") /\ ~HasAttr(n, "href") THEN <<MissingHrefMsg>>
    ELSE <<>>

IsImgOrA(n) == IsElement(n, "img") \/ IsElement(n, "a")

-----------------------------------------------------------------------------
(* C5 *)

\* C5: a visited element pushes the void-element message of its tag once
\* when its tag is in the void set and it has a child, however many, and not
\* at all otherwise; no other node pushes one; and after the walk the
\* children of every such element have been visited.
C5_VoidElements ==
    /\ pc \in {"traverse_dom", "return"} =>
           \A i \in DOMAIN visited :
               LET n == visited[i].node
               IN  \A tag \in void_elements \cup {"html", "title", "div", "a"} :
                       Count(visited[i].pushed, VoidMsg(tag)) =
                           IF /\ IsElement(n, tag)
                              /\ tag \in void_elements
                              /\ doc[n].children # <<>>
                           THEN 1 ELSE 0
    /\ Checked =>
           \A n \in Nodes :
               \A c \in Range(doc[n].children) : c \in Range(VisitedNodes)

\* a void element with two children pushed one message, and both children
\* were visited
C5_Witness ==
    /\ pc = "return"
    /\ \E i \in DOMAIN visited :
           LET n == visited[i].node
           IN  /\ doc[n].data.kind = "Element"
               /\ doc[n].data.name \in void_elements
               /\ Len(doc[n].children) = 2
               /\ Count(errors, VoidMsg(doc[n].data.name)) = 1
               /\ \A c \in Range(doc[n].children) : c \in Range(VisitedNodes)

-----------------------------------------------------------------------------
(* C6 *)

RootHasHtmlDoctype == \E c \in Range(doc[Root].children) : IsDoctype(c, "html")

-----------------------------------------------------------------------------
(* C7 *)

\* the runs that ended before a traversal began
IsFatal(o) == ~o.traversed

\* C7 as stated, for the conditions that can arise (read_from on a Cursor
\* never fails, so no content is unparseable): a run on a missing file and a
\* run on a file that is not UTF-8 each end before any traversal with exactly
\* one message and no findings, and the message of the one differs from the
\* message of the other.
C7_AsStated ==
    /\ \A i \in DOMAIN outcomes :
           outcomes[i].cause \in {"missing", "binary"} =>
               /\ IsFatal(outcomes[i])
               /\ ~outcomes[i].ok
               /\ Len(outcomes[i].text) = 1
    /\ \A i, j \in DOMAIN outcomes :
           /\ outcomes[i].cause = "missing"
           /\ outcomes[j].cause = "binary"
           => outcomes[i].text # outcomes[j].text

-----------------------------------------------------------------------------
(* C8 *)

\* C8: two runs that both walked the same tree end with the same result, the
\* same messages in the same order; every walk begins with a fresh context
\* and an empty error list; and while the first call of a walk is pending
\* nothing of an earlier run is left in the validator.
C8_Idempotent ==
    /\ Len(outcomes) = 2 /\ outcomes[1].traversed /\ outcomes[2].traversed =>
           /\ outcomes[1].ok = outcomes[2].ok
           /\ outcomes[1].text = outcomes[2].text
    /\ pc = "traverse_dom" /\ visited = <<>> =>
           /\ context = ValidationContextNew
           /\ errors = <<>>
           /\ pending = <<Root>>

\* two runs over a tree on which each run filled the singleton set and
\* pushed a message during the walk
C8_Witness ==
    /\ Len(outcomes) = 2
    /\ outcomes[1].traversed /\ outcomes[2].traversed
    /\ ~outcomes[2].ok
    /\ context.unique_elements # {}
    /\ Len(TraversalMsgs) >= 1

-----------------------------------------------------------------------------
(* C9 *)

\* C9: a run that reached the traversal ends with Ok exactly when its error
\* list is empty after the structural check; otherwise it ends with Err whose
\* text is not empty and whose lines are the messages of the error list, each
\* once, in the order they were pushed, with one separator between two
\* neighbours.
C9_Result ==
    pc = "done" /\ outcomes # <<>> /\ outcomes[Len(outcomes)].traversed =>
        LET o == outcomes[Len(outcomes)]
        IN  /\ o.ok <=> errors = <<>>
            /\ o.ok => o.text = <<>>
            /\ ~o.ok =>
                   /\ o.text # <<>>
                   /\ Lines(o.text) = errors
                   /\ Len(o.text) = 2 * Len(errors) - 1
                   /\ \A i \in DOMAIN o.text : (o.text[i] = "\n") <=> (i % 2 = 0)

\* a run over a page ended Err with three messages or more, one of them
\* pushed during the walk
C9_Witness ==
    /\ pc = "done" /\ outcomes # <<>>
    /\ outcomes[Len(outcomes)].traversed
    /\ ~outcomes[Len(outcomes)].ok
    /\ Len(errors) >= 3
    /\ Len(TraversalMsgs) >= 1

-----------------------------------------------------------------------------
(* C10 *)

\* the nodes whose visit sets a flag
SetsDoctype(n) == IsDoctype(n, "html")

\* C10: after the structural check each 'Missing ...' message stands in the
\* error list at most once, and exactly when no node of the tree sets its
\* flag: the doctype message when no Doctype node is named html, the html,
\* head and body messages when no element of that name stands anywhere in the
\* tree. During the walk a flag is true exactly when a node that sets it has
\* been visited, so a flag once true stays true. A tree whose only doctype
\* has another name than html yields the invalid-doctype and the
\* missing-doctype message.
C10_StructuralMessages ==
    /\ Checked =>
           /\ \A m \in Range(StructuralMsgs) : Count(errors, m) <= 1
           /\ Count(errors, MissingDoctypeMsg) = 1
                  <=> ~\E n \in Nodes : SetsDoctype(n)
           /\ Count(errors, MissingHtmlMsg) = 1
                  <=> ~\E n \in Nodes : IsElement(n, "html")
           /\ Count(errors, MissingHeadMsg) = 1
                  <=> ~\E n \in Nodes : IsElement(n, "head")
           /\ Count(errors, MissingBodyMsg) = 1
                  <=> ~\E n \in Nodes : IsElement(n, "body")
           /\ (/\ \E n \in Nodes : doc[n].data.kind = "Doctype"
               /\ \A n \in Nodes : doc[n].data.kind = "Doctype" => doc[n].data.name # "html")
              => /\ \E i \in DOMAIN errors : IsInvalidDoctypeMsg(errors[i])
                 /\ Count(errors, MissingDoctypeMsg) = 1
    /\ pc \in {"traverse_dom", "return"} =>
           /\ context.has_doctype <=> \E i \in DOMAIN visited : SetsDoctype(visited[i].node)
           /\ context.has_html <=> \E i \in DOMAIN visited : IsElement(visited[i].node, "html")
           /\ context.has_head <=> \E i \in DOMAIN visited : IsElement(visited[i].node, "head")
           /\ context.has_body <=> \E i \in DOMAIN visited : IsElement(visited[i].node, "body")

\* a body two levels below the root and no html element, under a doctype
\* that is not html: no missing-body message, a missing-html message and both
\* doctype messages
C10_Witness ==
    /\ pc = "return"
    /\ \E n \in Nodes : IsElement(n, "body") /\ n \notin Range(doc[Root].children)
    /\ \E n \in Nodes : IsDoctype(n, "HTML")
    /\ Count(errors, MissingBodyMsg) = 0
    /\ Count(errors, MissingDoctypeMsg) = 1
    /\ Count(errors, InvalidDoctypeMsg("HTML")) = 1
    /\ Count(errors, MissingHtmlMsg) = 1

====
